---- MODULE Spec2Model ----
(***************************************************************************)
(* GitNexus: the repository client (ghclient.py), the documentation and    *)
(* speech generator (ai_helper.py) and the dispatch handlers (app.py).     *)
(*                                                                         *)
(* The source-hosting provider is modelled by the state it keeps (the      *)
(* repositories and their files) and by the answer it gives to each call.  *)
(* One client invocation is in flight at a time (the program is            *)
(* synchronous); every provider call of an invocation is one step, so      *)
(* that a writer outside this program can act between two of them.         *)
(***************************************************************************)
EXTENDS Integers, Sequences, FiniteSets, TLC

VARIABLES
    repos,      \* provider: repository id -> "none" | "public" | "private"
    files,      \* provider: repository id -> path -> [exists, bytes]
    op,         \* the client invocation in flight, or the last one finished
    committed,  \* history: repository id -> path -> the content last committed
                \* by this program and not overwritten from outside since
    env,        \* os.environ: the three credentials, each a key or NoKey
    configured, \* the key of the last genai.configure(api_key=...), process-wide
    gens        \* the AIDocumentationGenerator instances constructed so far

credVars == <<env, configured, gens>>
ghVars == <<repos, files, committed, env, configured, gens>>
vars == <<repos, files, op, committed, env, configured, gens>>

---------------------------------------------------------------------------
(* Bounds and the small sets inputs are drawn from *)

MaxIdLen == 5

IdAlphabet == {"o", "/"}

Paths == {"p", "q"}

Range(s) == {s[i] : i \in 1..Len(s)}

SeqsUpTo(S, n) == UNION {[1..k -> S] : k \in 0..n}

RepoIds == SeqsUpTo(IdAlphabet, MaxIdLen)

\* the authenticated user's login, and the repository the provider can hold:
\* it does not exist until create_repo has made it
Login == <<"o">>
Hosted == <<"o", "/", "o">>
AllRepoIds == {Hosted}
RepoNames == {<<"o">>}

\* file contents are strings of code points; the provider stores bytes
Contents == {<<"a">>, <<"U+00E9">>}

---------------------------------------------------------------------------
(* Strings *)

RECURSIVE SplitOn(_, _)
\* str.split(d): the pieces between the occurrences of the character d
SplitOn(s, d) ==
    IF \A i \in 1..Len(s) : s[i] # d
    THEN <<s>>
    ELSE LET i == CHOOSE k \in 1..Len(s) :
                      s[k] = d /\ \A j \in 1..(k - 1) : s[j] # d
         IN  <<SubSeq(s, 1, i - 1)>> \o SplitOn(SubSeq(s, i + 1, Len(s)), d)

\* _validate_repo_name without the empty-segment test (a plausible slip)
ValidRepoNameNoSegments(s) ==
    /\ ~(s = <<>> \/ "/" \notin Range(s))
    /\ Len(SplitOn(s, "/")) = 2

\* _validate_repo_name: TRUE when no ValueError is raised
ValidRepoName(s) ==
    /\ ~(s = <<>> \/ "/" \notin Range(s))
    /\ LET parts == SplitOn(s, "/")
       IN  ~(Len(parts) # 2 \/ ~(\A i \in 1..Len(parts) : parts[i] # <<>>))

\* str.encode("utf-8") of one code point
Utf8Char(c) == IF c = "a" THEN <<97>> ELSE <<195, 169>>

RECURSIVE Utf8Encode(_)
\* the bytes the provider library sends for a str content
Utf8Encode(s) ==
    IF s = <<>> THEN <<>> ELSE Utf8Char(Head(s)) \o Utf8Encode(Tail(s))

RECURSIVE Utf8Decode(_)
\* bytes.decode("utf-8"): [ok, text]; ok is FALSE on a UnicodeDecodeError
Utf8Decode(b) ==
    IF b = <<>> THEN [ok |-> TRUE, text |-> <<>>]
    ELSE IF b[1] < 128
    THEN LET rest == Utf8Decode(Tail(b))
         IN  [ok |-> rest.ok /\ b[1] = 97, text |-> <<"a">> \o rest.text]
    ELSE IF Len(b) >= 2 /\ b[1] = 195 /\ b[2] = 169
    THEN LET rest == Utf8Decode(SubSeq(b, 3, Len(b)))
         IN  [ok |-> rest.ok, text |-> <<"U+00E9">> \o rest.text]
    ELSE [ok |-> FALSE, text |-> <<>>]

RECURSIVE Latin1Decode(_)
\* decoding one character per byte (a plausible slip for decode('utf-8'))
Latin1Decode(b) ==
    IF b = <<>> THEN [ok |-> TRUE, text |-> <<>>]
    ELSE LET rest == Latin1Decode(Tail(b))
         IN  [ok |-> rest.ok,
              text |-> <<IF b[1] = 97 THEN "a" ELSE "U+00C3">> \o rest.text]

\* file_content.decoded_content.decode('utf-8')
DecodeContent(b) == Utf8Decode(b)

CountOf(s, d) == Cardinality({i \in 1..Len(s) : s[i] = d})

---------------------------------------------------------------------------
(* Credentials: what the caller passes, what the environment sets *)

\* None: no argument passed, or a variable the environment does not set
NoKey == "None"

\* what a caller passes as a credential: nothing, a blank, or a key
CallerKeys == {NoKey, "", "k1", "k2"}

\* what os.environ.get(...) gives for each of the three variables
EnvKeys == {NoKey, "envkey"}

Environments == [github : EnvKeys, gemini : EnvKeys, eleven : EnvKeys]

NoEnv == [github |-> NoKey, gemini |-> NoKey, eleven |-> NoKey]

\* the truth value Python gives a key
Truthy(k) == k \notin {NoKey, ""}

\* a or b
OrElse(a, b) == IF Truthy(a) THEN a ELSE b

Instances == {1, 2}

\* a generator: the fields __init__ sets, the key of the client its model
\* holds once it has made a request (client), and what its caller passed or
\* would pass (args; __init__ takes the text key only)
NoGenerator == [made |-> FALSE, gemini_key |-> NoKey, gemini_model |-> FALSE,
                elevenlabs_key |-> NoKey, elevenlabs_client |-> FALSE,
                client |-> NoKey,
                args |-> [gemini |-> NoKey, eleven |-> NoKey]]

---------------------------------------------------------------------------
(* Text of the generative provider's response.  A text is a sequence of     *)
(* tokens, each standing for the characters it spells; the two markers are  *)
(* the token "## " followed by a word.  No other split of these tokens      *)
(* spells a marker, so an occurrence of a marker in the characters is an    *)
(* occurrence in the tokens.  "##" is "## " with its blank stripped; a text *)
(* never holds "##" followed by " " (Norm writes that as "## ").            *)

MaxDocLen == 5
MaxLeftLen == 4
MaxRightLen == 5
MaxSentenceLen == 5

DocAlphabet == {"## ", "Summary", "Documentation", " ", "\n", "."}

SummaryMarker == <<"## ", "Summary">>

\* what stands before and after the summary marker of a longer response
LeftAlphabet == {"## ", "Documentation"}
RightAlphabet == {"Summary", " ", "\n"}

\* sentences ended by each of the three delimiters
SentenceAlphabet == {"Summary", " ", ".", "!", "?"}

\* response.text: every short text, the longer ones with one summary marker,
\* and the texts of sentences
Responses ==
    SeqsUpTo(DocAlphabet, MaxDocLen)
        \cup {l \o SummaryMarker \o r : l \in SeqsUpTo(LeftAlphabet, MaxLeftLen),
                                        r \in SeqsUpTo(RightAlphabet, MaxRightLen)}
        \cup SeqsUpTo(SentenceAlphabet, MaxSentenceLen)

DocMarker == <<"## ", "Documentation">>

White == {" ", "\n"}

Delimiters == {".", "!", "?"}

OccursAt(s, m, i) == i + Len(m) - 1 <= Len(s) /\ SubSeq(s, i, i + Len(m) - 1) = m

Occurrences(s, m) == {i \in 1..Len(s) : OccursAt(s, m, i)}

RECURSIVE SplitStr(_, _)
\* s.split(m) for a marker m: the pieces between its occurrences, left to right
SplitStr(s, m) ==
    IF Occurrences(s, m) = {}
    THEN <<s>>
    ELSE LET i == CHOOSE k \in Occurrences(s, m) :
                      \A j \in Occurrences(s, m) : k <= j
         IN  <<SubSeq(s, 1, i - 1)>>
                 \o SplitStr(SubSeq(s, i + Len(m), Len(s)), m)

RECURSIVE Concat(_)
\* ''.join(pieces)
Concat(pieces) ==
    IF pieces = <<>> THEN <<>> ELSE Head(pieces) \o Concat(Tail(pieces))

\* s.replace(m, ""): the occurrences found left to right, one pass
Remove(s, m) == Concat(SplitStr(s, m))

RECURSIVE LStrip(_)
LStrip(s) == IF s # <<>> /\ Head(s) \in White THEN LStrip(Tail(s)) ELSE s

RECURSIVE RStrip(_)
RStrip(s) ==
    IF s = <<>> THEN s
    ELSE IF s[Len(s)] \in White THEN RStrip(SubSeq(s, 1, Len(s) - 1))
    ELSE IF s[Len(s)] = "## " THEN SubSeq(s, 1, Len(s) - 1) \o <<"##">>
    ELSE s

\* s.strip() that forgets the leading blanks (a plausible slip)
StripRightOnly(s) == RStrip(s)

\* s.strip()
Strip(s) == RStrip(LStrip(s))

RECURSIVE Norm(_)
\* the same characters, with "##" then " " written as the token "## "
Norm(s) ==
    IF Len(s) < 2 THEN s
    ELSE IF s[1] = "##" /\ s[2] = " " THEN <<"## ">> \o Norm(SubSeq(s, 3, Len(s)))
    ELSE <<s[1]>> \o Norm(Tail(s))

RECURSIVE JoinWith(_, _)
\* sep.join(pieces)
JoinWith(pieces, sep) ==
    IF pieces = <<>> THEN <<>>
    ELSE IF Len(pieces) = 1 THEN pieces[1]
    ELSE Norm(pieces[1] \o sep \o JoinWith(Tail(pieces), sep))

RECURSIVE StrippedNonEmpty(_)
\* [x.strip() for x in pieces if x.strip()]
StrippedNonEmpty(pieces) ==
    IF pieces = <<>> THEN <<>>
    ELSE (IF Strip(Head(pieces)) # <<>> THEN <<Strip(Head(pieces))>> ELSE <<>>)
             \o StrippedNonEmpty(Tail(pieces))

\* seq[:2]
FirstTwo(seq) == SubSeq(seq, 1, IF Len(seq) < 2 THEN Len(seq) ELSE 2)

RECURSIVE SplitRuns(_)
\* re.split(r'[.!?]+', text): the pieces between the runs of delimiters
SplitRuns(s) ==
    IF \A i \in 1..Len(s) : s[i] \notin Delimiters
    THEN <<s>>
    ELSE LET i == CHOOSE k \in 1..Len(s) :
                      s[k] \in Delimiters /\ \A j \in 1..(k - 1) : s[j] \notin Delimiters
             j == CHOOSE k \in i..Len(s) :
                      /\ \A n \in i..k : s[n] \in Delimiters
                      /\ (k = Len(s) \/ s[k + 1] \notin Delimiters)
         IN  <<SubSeq(s, 1, i - 1)>> \o SplitRuns(SubSeq(s, j + 1, Len(s)))

\* every sentence kept instead of sentences[:2] (a plausible slip)
AllSentences(sentences) == sentences

\* sentences[:2] of _extract_summary_fallback
FallbackSentences(sentences) == FirstTwo(sentences)

\* _extract_summary_fallback
ExtractSummaryFallback(text) ==
    LET sentences == StrippedNonEmpty(SplitRuns(text))
    IN  JoinWith(FallbackSentences(sentences), <<".", " ">>) \o <<".">>

\* the documentation marker left in place (a plausible slip)
KeepDocMarker(left) == Strip(left)

\* parts[0].replace("## Documentation", "").strip()
DocumentationOf(left) == Strip(Remove(left, DocMarker))

\* every line kept instead of summary_lines[:2] (a plausible slip)
AllLines(lines) == lines

\* summary_lines[:2]
SummaryLines(lines) == FirstTwo(lines)

\* the parsing of generate_documentation: full_response -> the dict returned
ParseResponse(full) ==
    LET parts == SplitStr(full, SummaryMarker)
    IN  IF Len(parts) = 2
        THEN LET summary == Strip(parts[2])
                 summary_lines == StrippedNonEmpty(SplitOn(summary, "\n"))
             IN  [documentation |-> DocumentationOf(parts[1]),
                  summary |-> JoinWith(SummaryLines(summary_lines), <<" ">>)]
        ELSE [documentation |-> full,
              summary |-> ExtractSummaryFallback(full)]

---------------------------------------------------------------------------
(* The provider's state and answers *)

Absent == [exists |-> FALSE, bytes |-> <<>>]
FileOf(b) == [exists |-> TRUE, bytes |-> b]

\* what a writer outside this program may store: text, or bytes that are no UTF-8
ExtBlobs == {Utf8Encode(c) : c \in Contents} \cup {<<195>>}

\* the blob hash of a file: a function of its bytes alone
Sha(b) == <<"blob">> \o b

NoSha == <<>>

Exists(r) == r \in AllRepoIds /\ repos[r] # "none"

NotFoundStatus == 404

\* a GithubException: its HTTP status and what its data holds: a dict with a
\* 'message' ("msg"), a dict without one ("nomsg"), or no dict at all ("none").
\* Status 0 stands for a failure that is no GithubException (the transport's).
Failure(s, d) == [status |-> s, data |-> d]
NotFound == Failure(NotFoundStatus, "msg")
Transport == Failure(0, "none")

\* failures the provider may answer any call with, whatever its state
Faults == {Failure(500, d) : d \in {"msg", "nomsg", "none"}} \cup {Transport}

\* a write is also refused with 404 when the token may read but not write
WriteFaults == Faults \cup {NotFound}

\* one provider call made: its name, the answer a, the sha and private arguments
Call(name, a, sha, priv) ==
    [call |-> name, status |-> a.status, data |-> a.data, sha |-> sha,
     priv |-> priv]

---------------------------------------------------------------------------
(* The client invocation *)

NoOut == [kind |-> "none", msg |-> <<>>, action |-> "", content |-> <<>>,
          priv |-> FALSE, documentation |-> <<>>, summary |-> <<>>,
          audio |-> FALSE]

NoOp == [kind |-> "none", via |-> "client", pc |-> "idle", repo |-> <<>>,
         path |-> "", content |-> <<>>, priv |-> FALSE, sha |-> NoSha,
         calls |-> <<>>, out |-> NoOut,
         gemini |-> FALSE, eleven |-> FALSE, response |-> <<>>,
         inst |-> 0, arg |-> NoKey, token |-> NoKey, key |-> NoKey,
         sent |-> NoKey,
         ui |-> "", stage |-> "", file |-> "None", documentation |-> <<>>,
         docs_path |-> "", results |-> <<>>,
         result |-> [documentation |-> <<>>, summary |-> <<>>],
         existed |-> FALSE, raced |-> FALSE, stale |-> FALSE,
         expect |-> [has |-> FALSE, content |-> <<>>]]

Ok == Failure(200, "none")

Raised(kind, msg) == [NoOut EXCEPT !.kind = kind, !.msg = msg]

ValueErrorMsg == <<"Invalid repository name. Must be in format 'username/repo'">>

Prefix(kind) ==
    CASE kind = "create_repo" -> "Failed to create repository: "
      [] kind = "list_repos" -> "Failed to list repositories: "
      [] kind = "create_issue" -> "Failed to create issue: "
      [] kind = "list_issues" -> "Failed to list issues: "
      [] kind = "commit_file" -> "Failed to commit file: "
      [] kind = "read_file" -> "Failed to read file: "

\* e.data.get('message', str(e))
Detail(e) == IF e.data = "msg" THEN "provider message" ELSE "str(e)"

\* except GithubException as e: raise Exception(f"...: {e.data.get('message', str(e))}")
\* of create_repo, list_repos, create_issue, list_issues and commit_file
Wrap(kind, e) ==
    IF e.status = 0 THEN Raised("TransportError", <<"str(e)">>)
    ELSE IF e.data = "none"
    THEN Raised("AttributeError", <<"'NoneType' object has no attribute 'get'">>)
    ELSE Raised("Exception", <<Prefix(kind), Detail(e)>>)

\* the except clause of read_file without its 404 branch (a plausible slip)
WrapReadGeneric(path, e) == Wrap("read_file", e)

\* the except clause of read_file
WrapRead(path, e) ==
    IF e.status = 0 THEN Raised("TransportError", <<"str(e)">>)
    ELSE IF e.status = NotFoundStatus
    THEN Raised("Exception", <<"File not found: ", path>>)
    ELSE Wrap("read_file", e)

\* the outer except clause of the invocation o, entered with the failure e
Propagate(o, e) ==
    IF o.kind = "read_file" THEN WrapRead(o.path, e) ELSE Wrap(o.kind, e)

RECURSIVE UiReturn(_)

\* the invocation o ends with out; a UI handler that made it goes on from there
Finish(o, out) ==
    LET d == [o EXCEPT !.pc = "done", !.out = out]
    IN  IF o.ui = "" THEN d ELSE UiReturn(d)

Logged(o, c) == [o EXCEPT !.calls = Append(o.calls, c)]

Idle == op.pc = "idle"

InFlight == op.pc \notin {"idle", "done"}

\* the caller has the outcome of the finished invocation; the next one may start
Return ==
    /\ op.pc = "done"
    /\ op' = NoOp
    /\ UNCHANGED ghVars

---------------------------------------------------------------------------
(* The client's methods: the part that runs before the first provider call *)

\* the four methods that take a repository id: validation, then get_repo
StartRepoOp(kind, r, p, c) ==
    LET o == [NoOp EXCEPT !.kind = kind, !.repo = r, !.path = p, !.content = c,
                          !.existed = (r \in AllRepoIds /\ p \in Paths
                                       /\ files[r][p].exists)]
    IN  IF ValidRepoName(r)
        THEN [o EXCEPT !.pc = "get_repo"]
        ELSE Finish(o, Raised("ValueError", ValueErrorMsg))

create_issue ==
    /\ Idle
    /\ \E r \in RepoIds : op' = StartRepoOp("create_issue", r, "", <<>>)
    /\ UNCHANGED ghVars

list_issues ==
    /\ Idle
    /\ \E r \in RepoIds : op' = StartRepoOp("list_issues", r, "", <<>>)
    /\ UNCHANGED ghVars

commit_file ==
    /\ Idle
    /\ \E r \in RepoIds, p \in Paths, c \in Contents :
          op' = StartRepoOp("commit_file", r, p, c)
    /\ UNCHANGED ghVars

read_file ==
    /\ Idle
    /\ \E r \in RepoIds, p \in Paths : op' = StartRepoOp("read_file", r, p, <<>>)
    /\ UNCHANGED ghVars

\* create_repo(name, private, description) up to its provider call
StartCreateRepo(name, private) ==
    [NoOp EXCEPT !.kind = "create_repo", !.repo = name, !.priv = private,
                 !.pc = "create_repo"]

create_repo ==
    /\ Idle
    /\ \E n \in RepoNames, private \in BOOLEAN : op' = StartCreateRepo(n, private)
    /\ UNCHANGED ghVars

\* mcp_create_repo asking for a private repository (a plausible slip)
McpPrivateTrue == TRUE

\* the private argument mcp_create_repo passes
McpPrivate == FALSE

\* list_repos() up to its provider call
StartListRepos == [NoOp EXCEPT !.kind = "list_repos", !.pc = "get_repos"]

list_repos ==
    /\ Idle
    /\ op' = StartListRepos
    /\ UNCHANGED ghVars

\* a dispatch handler's {"error": message}
ErrorRecord(msg) == [NoOut EXCEPT !.kind = "error_record", !.msg = msg]

\* the head of the six repository handlers: client = get_github_client(token),
\* the error record when there is none, else return client.method(...), whose
\* invocation o has run up to its first provider call
McpStart(o, token) ==
    LET t == OrElse(token, env.github)
        m == [o EXCEPT !.via = "mcp", !.arg = token, !.token = t]
    IN  IF ~Truthy(t)
        THEN Finish([m EXCEPT !.existed = FALSE],
                    ErrorRecord(<<"GitHub token not configured">>))
        ELSE m

\* mcp_create_repo: client.create_repo(name, private=False, ...)
mcp_create_repo ==
    /\ Idle
    /\ \E n \in RepoNames, token \in CallerKeys :
          op' = McpStart(StartCreateRepo(n, McpPrivate), token)
    /\ UNCHANGED ghVars

mcp_list_repos ==
    /\ Idle
    /\ \E token \in CallerKeys : op' = McpStart(StartListRepos, token)
    /\ UNCHANGED ghVars

mcp_create_issue ==
    /\ Idle
    /\ \E r \in RepoIds, token \in CallerKeys :
          op' = McpStart(StartRepoOp("create_issue", r, "", <<>>), token)
    /\ UNCHANGED ghVars

mcp_list_issues ==
    /\ Idle
    /\ \E r \in RepoIds, token \in CallerKeys :
          op' = McpStart(StartRepoOp("list_issues", r, "", <<>>), token)
    /\ UNCHANGED ghVars

mcp_commit_file ==
    /\ Idle
    /\ \E r \in RepoIds, p \in Paths, c \in Contents, token \in CallerKeys :
          op' = McpStart(StartRepoOp("commit_file", r, p, c), token)
    /\ UNCHANGED ghVars

mcp_read_file ==
    /\ Idle
    /\ \E r \in RepoIds, p \in Paths, token \in CallerKeys :
          op' = McpStart(StartRepoOp("read_file", r, p, <<>>), token)
    /\ UNCHANGED ghVars

---------------------------------------------------------------------------
(* The provider calls, one step each *)

\* where a method goes once get_repo has answered
AfterRepo(kind) ==
    CASE kind = "create_issue" -> "create_issue"
      [] kind = "list_issues" -> "get_issues"
      [] kind = "commit_file" -> "get_contents"
      [] kind = "read_file" -> "get_contents"

GetRepoAnswers(r) == (IF Exists(r) THEN {Ok} ELSE {NotFound}) \cup Faults

\* repo = self.github.get_repo(repo_full_name)
github_get_repo ==
    /\ op.pc = "get_repo"
    /\ \E a \in GetRepoAnswers(op.repo) :
          LET o == Logged(op, Call("get_repo", a, NoSha, FALSE))
          IN  op' = IF a = Ok
                    THEN [o EXCEPT !.pc = AfterRepo(o.kind)]
                    ELSE Finish(o, Propagate(o, a))
    /\ UNCHANGED ghVars

\* issue = repo.create_issue(title=title, body=body)
repo_create_issue ==
    /\ op.pc = "create_issue"
    /\ \E a \in {Ok} \cup WriteFaults :
          LET o == Logged(op, Call("create_issue", a, NoSha, FALSE))
          IN  op' = IF a = Ok
                    THEN Finish(o, [NoOut EXCEPT !.kind = "ok"])
                    ELSE Finish(o, Propagate(o, a))
    /\ UNCHANGED ghVars

\* issues = repo.get_issues(state=state)
repo_get_issues ==
    /\ op.pc = "get_issues"
    /\ \E a \in {Ok} \cup Faults :
          LET o == Logged(op, Call("get_issues", a, NoSha, FALSE))
          IN  op' = IF a = Ok
                    THEN Finish(o, [NoOut EXCEPT !.kind = "ok"])
                    ELSE Finish(o, Propagate(o, a))
    /\ UNCHANGED ghVars

\* repos = self.user.get_repos()
user_get_repos ==
    /\ op.pc = "get_repos"
    /\ \E a \in {Ok} \cup Faults :
          LET o == Logged(op, Call("get_repos", a, NoSha, FALSE))
          IN  op' = IF a = Ok
                    THEN Finish(o, [NoOut EXCEPT !.kind = "ok"])
                    ELSE Finish(o, Propagate(o, a))
    /\ UNCHANGED ghVars

FullName(name) == Login \o <<"/">> \o name

CreateRepoAnswers(name) ==
    (IF Exists(FullName(name)) THEN {Failure(422, "msg")} ELSE {Ok}) \cup Faults

\* the private argument create_repo passes to the provider: private=private
RequestedPrivate(o) == o.priv

\* repo = self.user.create_repo(name=name, private=private, ...)
user_create_repo ==
    /\ op.pc = "create_repo"
    /\ \E a \in CreateRepoAnswers(op.repo) :
          LET o == Logged(op, Call("create_repo", a, NoSha,
                                   RequestedPrivate(op)))
              full == FullName(op.repo)
          IN  IF a = Ok
              THEN /\ repos' = [repos EXCEPT ![full] =
                                   IF RequestedPrivate(op) THEN "private"
                                                           ELSE "public"]
                   /\ op' = Finish(o, [NoOut EXCEPT !.kind = "ok",
                                            !.priv = (repos'[full] = "private")])
              ELSE /\ op' = Finish(o, Propagate(o, a))
                   /\ UNCHANGED repos
    /\ UNCHANGED <<files, committed, credVars>>

ContentsAnswers(r, p) ==
    (IF files[r][p].exists THEN {Ok} ELSE {NotFound}) \cup Faults

\* the update call carrying the hash of the new content (a plausible slip)
UpdateShaOfContent(o) == Sha(Utf8Encode(o.content))

\* the sha argument of the update call: sha=existing_file.sha
UpdateSha(o) == o.sha

\* the inner except clause creating the file on every failure (a plausible slip)
InnerExceptCreates(o, e) == [o EXCEPT !.pc = "create_file"]

\* the inner except clause of commit_file: create on 404, else re-raise
InnerExcept(o, e) ==
    IF e.status = NotFoundStatus
    THEN [o EXCEPT !.pc = "create_file"]
    ELSE Finish(o, Propagate(o, e))

\* existing_file = repo.get_contents(path), in commit_file
commit_get_contents ==
    /\ op.kind = "commit_file" /\ op.pc = "get_contents"
    /\ \E a \in ContentsAnswers(op.repo, op.path) :
          LET f == files[op.repo][op.path]
              o == Logged(op, Call("get_contents", a,
                                   IF a = Ok THEN Sha(f.bytes) ELSE NoSha, FALSE))
          IN  op' = IF a = Ok
                    THEN [o EXCEPT !.sha = Sha(f.bytes), !.pc = "update_file"]
                    ELSE InnerExcept(o, a)
    /\ UNCHANGED ghVars

\* the provider's answer to an update: the sha must be that of the file now stored
UpdateAnswers(r, p, sha) ==
    (IF ~files[r][p].exists THEN {NotFound, Failure(409, "msg")}
     ELSE IF Sha(files[r][p].bytes) # sha THEN {Failure(409, "msg")}
     ELSE {Ok}) \cup WriteFaults

Stored(r, p, c) == [files EXCEPT ![r][p] = FileOf(Utf8Encode(c))]

Remembered(r, p, c) ==
    [committed EXCEPT ![r][p] = [has |-> TRUE, content |-> c]]

\* the file is no longer the one whose sha was fetched
Stale(r, p, sha) == ~files[r][p].exists \/ Sha(files[r][p].bytes) # sha

\* result = repo.update_file(path, message, content, sha)
repo_update_file ==
    /\ op.pc = "update_file"
    /\ \E a \in UpdateAnswers(op.repo, op.path, UpdateSha(op)) :
          LET o == [Logged(op, Call("update_file", a, UpdateSha(op), FALSE))
                      EXCEPT !.stale = Stale(op.repo, op.path, op.sha)]
          IN  IF a = Ok
              THEN /\ files' = Stored(op.repo, op.path, op.content)
                   /\ committed' = Remembered(op.repo, op.path, op.content)
                   /\ op' = Finish(o, [NoOut EXCEPT !.kind = "ok",
                                                    !.action = "updated"])
              ELSE /\ op' = InnerExcept(o, a)
                   /\ UNCHANGED <<files, committed>>
    /\ UNCHANGED <<repos, credVars>>

CreateAnswers(r, p) ==
    (IF files[r][p].exists THEN {Failure(422, "msg")} ELSE {Ok}) \cup WriteFaults

\* result = repo.create_file(path, message, content)
repo_create_file ==
    /\ op.pc = "create_file"
    /\ \E a \in CreateAnswers(op.repo, op.path) :
          LET o == Logged(op, Call("create_file", a, NoSha, FALSE))
          IN  IF a = Ok
              THEN /\ files' = Stored(op.repo, op.path, op.content)
                   /\ committed' = Remembered(op.repo, op.path, op.content)
                   /\ op' = Finish(o, [NoOut EXCEPT !.kind = "ok",
                                                    !.action = "created"])
              ELSE /\ op' = Finish(o, Propagate(o, a))
                   /\ UNCHANGED <<files, committed>>
    /\ UNCHANGED <<repos, credVars>>

\* what read_file returns or raises once get_contents has answered with the file f
ReadResult(f) ==
    LET d == DecodeContent(f.bytes)
    IN  IF d.ok
        THEN [NoOut EXCEPT !.kind = "ok", !.content = d.text]
        ELSE Raised("UnicodeDecodeError", <<"invalid start byte">>)

\* file_content = repo.get_contents(path), in read_file
read_get_contents ==
    /\ op.kind = "read_file" /\ op.pc = "get_contents"
    /\ \E a \in ContentsAnswers(op.repo, op.path) :
          LET f == files[op.repo][op.path]
              o == [Logged(op, Call("get_contents", a,
                                    IF a = Ok THEN Sha(f.bytes) ELSE NoSha, FALSE))
                      EXCEPT !.expect = committed[op.repo][op.path]]
          IN  op' = IF a = Ok
                    THEN Finish(o, ReadResult(f))
                    ELSE Finish(o, Propagate(o, a))
    /\ UNCHANGED ghVars

---------------------------------------------------------------------------
(* The documentation generator: generate_documentation, text_to_speech,     *)
(* process_file and the handler mcp_generate_docs_with_tts                  *)

\* responses the generative provider gives in the runs that also hold the
\* repository client: one in the requested format, one without a marker
SampleResponses ==
    {<<"## ", "Documentation", "\n", "Documentation", ".", "\n",
       "## ", "Summary", "\n", "Summary", ".", "\n", "Summary", ".">>,
     <<"Documentation", ".", " ", "Summary", ".">>}

GeneratorKinds == {"generate_documentation", "process_file",
                   "mcp_generate_docs_with_tts"}

\* the failure a provider of the generator raises (any Exception)
ProviderError == Failure(500, "msg")

GeminiKeyMsg ==
    <<"Gemini API key not configured. Set GEMINI_API_KEY environment variable.">>

ElevenKeyMsg ==
    <<"ElevenLabs API key not configured. Set ELEVENLABS_API_KEY environment variable.">>

\* how a failure leaves the invocation: raised by the generator's methods,
\* returned as {"error": str(e)} by mcp_generate_docs_with_tts
Surface(o, exc) ==
    IF o.kind = "mcp_generate_docs_with_tts"
    THEN [NoOut EXCEPT !.kind = "error_record", !.msg = exc.msg]
    ELSE exc

\* generate_documentation without its credential check (a plausible slip)
StartGeneratorUnchecked(kind, gemini, eleven) ==
    [NoOp EXCEPT !.kind = kind, !.gemini = gemini, !.eleven = eleven,
                 !.pc = "generate_content"]

\* generate_documentation up to its provider call: the credential check
StartGenerator(kind, gemini, eleven) ==
    LET o == [NoOp EXCEPT !.kind = kind, !.gemini = gemini, !.eleven = eleven]
    IN  IF ~o.gemini
        THEN Finish(o, Surface(o, Raised("ValueError", GeminiKeyMsg)))
        ELSE [o EXCEPT !.pc = "generate_content"]

generate_documentation ==
    /\ Idle
    /\ \E g \in BOOLEAN, e \in BOOLEAN :
          op' = StartGenerator("generate_documentation", g, e)
    /\ UNCHANGED ghVars

process_file ==
    /\ Idle
    /\ \E g \in BOOLEAN, e \in BOOLEAN : op' = StartGenerator("process_file", g, e)
    /\ UNCHANGED ghVars

mcp_generate_docs_with_tts ==
    /\ Idle
    /\ \E g \in BOOLEAN, e \in BOOLEAN :
          op' = StartGenerator("mcp_generate_docs_with_tts", g, e)
    /\ UNCHANGED ghVars

\* the pipeline going on to the speech call after a failed generation (a
\* plausible slip: the failure swallowed)
SpeakAnyway(o, e) == [o EXCEPT !.pc = "convert"]

\* except Exception as e: raise Exception(f"Failed to generate documentation: ...")
\* and what process_file and the handler do with it
AfterGenerationFailure(o, e) ==
    Finish(o, Surface(o, Raised("Exception",
                                <<"Failed to generate documentation: ", "str(e)">>)))

\* the dict generate_documentation returns, and the statement after the call:
\* text_to_speech(result["summary"]) up to its provider call
AfterGeneration(o, result) ==
    IF o.kind = "generate_documentation"
    THEN Finish(o, [NoOut EXCEPT !.kind = "ok",
                                 !.documentation = result.documentation,
                                 !.summary = result.summary])
    ELSE IF ~o.eleven
    THEN Finish(o, Surface(o, Raised("ValueError", ElevenKeyMsg)))
    ELSE [o EXCEPT !.result = result, !.pc = "convert"]

\* response = self.gemini_model.generate_content(prompt), with the response
\* text drawn from texts, and the parsing that follows
GenerateContent(texts) ==
    /\ op.pc = "generate_content"
    /\ \/ \E t \in texts :
            op' = AfterGeneration(
                      [Logged(op, Call("generate_content", Ok, NoSha, FALSE))
                          EXCEPT !.response = t],
                      ParseResponse(t))
       \/ op' = AfterGenerationFailure(
                    Logged(op, Call("generate_content", ProviderError, NoSha, FALSE)),
                    ProviderError)
    /\ UNCHANGED ghVars

gemini_generate_content == GenerateContent(SampleResponses)

\* audio_generator = self.elevenlabs_client.text_to_speech.convert(...)
eleven_convert ==
    /\ op.pc = "convert"
    /\ \/ op' = Finish(Logged(op, Call("convert", Ok, NoSha, FALSE)),
                       [NoOut EXCEPT !.kind = "ok",
                                     !.documentation = op.result.documentation,
                                     !.summary = op.result.summary,
                                     !.audio = TRUE])
       \/ op' = Finish(Logged(op, Call("convert", ProviderError, NoSha, FALSE)),
                       Surface(op, Raised("Exception",
                                          <<"Failed to generate audio: ", "str(e)">>)))
    /\ UNCHANGED ghVars

---------------------------------------------------------------------------
(* Construction of the client and of the generator, and calls on the        *)
(* generators constructed                                                   *)

\* the environment's value preferred to the caller's (a plausible slip)
EnvFirst(caller, environment) == OrElse(environment, caller)

\* token or os.environ.get("GITHUB_TOKEN"), and the same for the text key
Resolved(caller, environment) == OrElse(caller, environment)

TokenMsg == <<"GitHub token not provided. Set GITHUB_TOKEN environment variable.">>

\* GitHubClient(token): the client, or the ValueError of a missing token
GitHubClient ==
    /\ Idle
    /\ \E token \in CallerKeys :
          LET o == [NoOp EXCEPT !.kind = "GitHubClient", !.arg = token,
                                !.token = Resolved(token, env.github)]
          IN  op' = IF ~Truthy(o.token)
                    THEN Finish(o, Raised("ValueError", TokenMsg))
                    ELSE Finish(o, [NoOut EXCEPT !.kind = "ok"])
    /\ UNCHANGED ghVars

\* a generator that takes its text key from the environment alone (a
\* plausible slip)
NewGeneratorEnvOnly(user_gemini_key, speech) ==
    [made |-> TRUE, gemini_key |-> env.gemini, gemini_model |-> Truthy(env.gemini),
     elevenlabs_key |-> env.eleven, elevenlabs_client |-> Truthy(env.eleven),
     client |-> NoKey, args |-> [gemini |-> user_gemini_key, eleven |-> speech]]

\* the fields AIDocumentationGenerator.__init__(user_gemini_key) sets; speech
\* is the speech key its caller would pass, for which there is no parameter
NewGenerator(user_gemini_key, speech) ==
    LET gemini_key == Resolved(user_gemini_key, env.gemini)
        elevenlabs_key == env.eleven
    IN  [made |-> TRUE,
         gemini_key |-> gemini_key, gemini_model |-> Truthy(gemini_key),
         elevenlabs_key |-> elevenlabs_key,
         elevenlabs_client |-> Truthy(elevenlabs_key),
         client |-> NoKey,
         args |-> [gemini |-> user_gemini_key, eleven |-> speech]]

\* if self.gemini_key: genai.configure(api_key=self.gemini_key)
Configure(g) == IF g.gemini_model THEN g.gemini_key ELSE configured

\* AIDocumentationGenerator(user_gemini_key): never raises
AIDocumentationGenerator ==
    /\ Idle
    /\ \E i \in Instances, k \in CallerKeys, speech \in {NoKey, "k1"} :
          LET g == NewGenerator(k, speech)
          IN  /\ gens' = [gens EXCEPT ![i] = g]
              /\ configured' = Configure(g)
    /\ UNCHANGED <<repos, files, committed, env, op>>

\* text_to_speech up to its provider call: the credential check
StartSpeech(kind, gemini, eleven) ==
    LET o == [NoOp EXCEPT !.kind = kind, !.gemini = gemini, !.eleven = eleven]
    IN  IF ~o.eleven
        THEN Finish(o, Raised("ValueError", ElevenKeyMsg))
        ELSE [o EXCEPT !.pc = "convert"]

\* the invocation o, made on the generator i
On(o, i) == [o EXCEPT !.inst = i, !.key = gens[i].gemini_key]

\* generate_documentation, text_to_speech and process_file called on a
\* generator constructed before
instance_call ==
    /\ Idle
    /\ \E i \in Instances :
          /\ gens[i].made
          /\ \/ op' = On(StartGenerator("generate_documentation",
                                        gens[i].gemini_model,
                                        gens[i].elevenlabs_client), i)
             \/ op' = On(StartGenerator("process_file", gens[i].gemini_model,
                                        gens[i].elevenlabs_client), i)
             \/ op' = On(StartSpeech("text_to_speech", gens[i].gemini_model,
                                     gens[i].elevenlabs_client), i)
    /\ UNCHANGED ghVars

\* the key a generator's request is sent with: that of the client its model
\* holds, which the model takes from the process-wide configuration when it
\* makes its first request
RequestKey(g) == IF g.client # NoKey THEN g.client ELSE configured

\* self.gemini_model.generate_content(prompt) of a generator constructed before
instance_generate_content ==
    /\ op.pc = "generate_content" /\ op.inst \in Instances
    /\ LET sent == RequestKey(gens[op.inst])
           o == [op EXCEPT !.sent = sent]
       IN  /\ gens' = [gens EXCEPT ![op.inst].client = sent]
           /\ \/ \E t \in {<<"Documentation", ".">>} :
                     op' = AfterGeneration(
                               [Logged(o, Call("generate_content", Ok, NoSha, FALSE))
                                   EXCEPT !.response = t],
                               ParseResponse(t))
              \/ op' = AfterGenerationFailure(
                           Logged(o, Call("generate_content", ProviderError, NoSha,
                                          FALSE)),
                           ProviderError)
    /\ UNCHANGED <<repos, files, committed, env, configured>>

---------------------------------------------------------------------------
(* The UI handlers ui_generate_docs, ui_commit_docs and ui_commit_both *)

\* the cross mark the UI handlers start their error texts with
ErrorMark == "U+274C"

\* f"<cross mark> Error: {str(e)}" and f"<cross mark> Error: {result['error']}"
UiError(msg) == <<ErrorMark, " Error: ">> \o msg

\* the uploaded file: none, an object without a name, a file that cannot be
\* read, a file that can
UiFiles == {"None", "no_name", "unreadable", "ok"}

\* the documentation box: empty, an error text, a documentation
UiDocs == {<<>>, <<ErrorMark, " Please upload a file">>, UiError(<<"str(e)">>),
           <<"a">>, <<"U+00E9">>}

UiRepoIds == {Hosted, <<"o">>}

UiTokens == {"", " ", "k1"}

\* token if token.strip() else None
UiToken(token) == IF token \in {"", " "} THEN NoKey ELSE token

\* the handler returns text
UiText(o, text) ==
    [o EXCEPT !.pc = "done", !.out = [NoOut EXCEPT !.kind = "text", !.msg = text]]

\* the test of the documentation without startswith (a plausible slip)
NoDocumentationEmptyOnly(documentation) == documentation = <<>>

\* not documentation or documentation.startswith(<cross mark>)
NoDocumentation(documentation) ==
    documentation = <<>> \/ Head(documentation) = ErrorMark

\* the invocation o of mcp_commit_file, made by the handler h
Within(o, h) ==
    [o EXCEPT !.ui = h.ui, !.stage = h.stage, !.file = h.file,
              !.documentation = h.documentation, !.docs_path = h.docs_path,
              !.results = h.results, !.calls = h.calls]

\* ui_generate_docs once process_file has returned or raised
GenerateReturn(d) ==
    IF d.out.kind = "ok"
    THEN [d EXCEPT !.pc = "done"]
    ELSE [d EXCEPT !.pc = "done",
                   !.out = [NoOut EXCEPT !.kind = "text",
                                         !.documentation = UiError(d.out.msg)]]

\* ui_commit_docs once mcp_commit_file has returned or raised
CommitDocsReturn(d) ==
    IF d.out.kind = "ok"
    THEN UiText(d, <<"Documentation committed!">>)
    ELSE UiText(d, UiError(d.out.msg))

RECURSIVE BothReturn(_)

\* ui_commit_both from '# Commit documentation' on, with the results so far
DocsStage(h, results) ==
    LET g == [h EXCEPT !.stage = "docs", !.results = results]
    IN  IF ~NoDocumentation(h.documentation)
        THEN LET o == Within(McpStart(StartRepoOp("commit_file", h.repo,
                                                  h.docs_path, h.documentation),
                                      h.arg), g)
             IN  IF o.pc = "done" THEN BothReturn(o) ELSE o
        ELSE UiText([g EXCEPT !.stage = h.stage],
                    Append(results, "No documentation generated, skipping"))

\* ui_commit_both once one of its two mcp_commit_file calls has returned or
\* raised: a raise ends the handler in its except clause
BothReturn(d) ==
    IF d.out.kind \notin {"ok", "error_record"}
    THEN UiText(d, UiError(d.out.msg))
    ELSE IF d.stage = "code"
    THEN DocsStage(d, Append(d.results,
                             IF d.out.kind = "ok" THEN "Code file committed"
                                                  ELSE "Code file error"))
    ELSE UiText(d, Append(d.results,
                          IF d.out.kind = "ok" THEN "Documentation committed"
                                               ELSE "Documentation error"))

UiReturn(d) ==
    CASE d.ui = "ui_generate_docs" -> GenerateReturn(d)
      [] d.ui = "ui_commit_docs" -> CommitDocsReturn(d)
      [] d.ui = "ui_commit_both" -> BothReturn(d)

ui_generate_docs ==
    /\ Idle
    /\ \E file \in UiFiles, user_key \in {"", " ", "k1"} :
          LET h == [NoOp EXCEPT !.kind = "process_file", !.ui = "ui_generate_docs",
                                !.file = file, !.arg = UiToken(user_key)]
              ai_helper == NewGenerator(UiToken(user_key), NoKey)
              failed(text) == [h EXCEPT !.pc = "done",
                                        !.out = [NoOut EXCEPT !.kind = "text",
                                                              !.documentation = text]]
          IN  IF file = "None"
              THEN /\ op' = failed(<<ErrorMark, " Please upload a file">>)
                   /\ UNCHANGED configured
              ELSE IF file = "no_name"
              THEN /\ op' = failed(<<ErrorMark, " Invalid file upload">>)
                   /\ UNCHANGED configured
              ELSE IF file = "unreadable"
              THEN /\ op' = failed(UiError(<<"str(e)">>))
                   /\ UNCHANGED configured
              ELSE /\ configured' = Configure(ai_helper)
                   /\ op' = IF ~ai_helper.gemini_model
                            THEN failed(<<ErrorMark, " AI services not configured.">>)
                            ELSE [StartGenerator("process_file", TRUE,
                                                 ai_helper.elevenlabs_client)
                                     EXCEPT !.ui = h.ui, !.file = file, !.arg = h.arg]
    /\ UNCHANGED <<repos, files, committed, env, gens>>

ui_commit_docs ==
    /\ Idle
    /\ \E r \in UiRepoIds, p \in Paths, documentation \in UiDocs, token \in UiTokens :
          LET h == [NoOp EXCEPT !.kind = "commit_file", !.ui = "ui_commit_docs",
                                !.repo = r, !.path = p, !.arg = UiToken(token),
                                !.documentation = documentation]
          IN  op' = IF NoDocumentation(documentation)
                    THEN UiText(h, <<ErrorMark, " No documentation to commit.">>)
                    ELSE LET o == Within(McpStart(StartRepoOp("commit_file", r, p,
                                                              documentation),
                                                  UiToken(token)),
                                         [h EXCEPT !.stage = "docs"])
                         IN  IF o.pc = "done" THEN UiReturn(o) ELSE o
    /\ UNCHANGED ghVars

ui_commit_both ==
    /\ Idle
    /\ \E file \in UiFiles, r \in UiRepoIds, code_path \in Paths, docs_path \in Paths,
          documentation \in UiDocs, token \in UiTokens, code_content \in {<<"a">>} :
          LET h == [NoOp EXCEPT !.kind = "commit_file", !.ui = "ui_commit_both",
                                !.repo = r, !.path = code_path, !.file = file,
                                !.docs_path = docs_path, !.arg = UiToken(token),
                                !.documentation = documentation]
          IN  op' = IF file = "None"
                    THEN DocsStage(h, <<"No code file uploaded, skipping">>)
                    ELSE IF file = "no_name"
                    THEN DocsStage(h, <<>>)
                    ELSE IF file = "unreadable"
                    THEN UiText(h, UiError(<<"str(e)">>))
                    ELSE LET o == Within(McpStart(StartRepoOp("commit_file", r,
                                                              code_path, code_content),
                                                  UiToken(token)),
                                         [h EXCEPT !.stage = "code"])
                         IN  IF o.pc = "done" THEN UiReturn(o) ELSE o
    /\ UNCHANGED ghVars

---------------------------------------------------------------------------

\* a writer outside this program stores, replaces or deletes a file
ExternalWrite ==
    /\ \E r \in AllRepoIds, p \in Paths, f \in {FileOf(b) : b \in ExtBlobs} \cup {Absent} :
          /\ Exists(r)
          /\ f # files[r][p]
          /\ files' = [files EXCEPT ![r][p] = f]
          /\ committed' = [committed EXCEPT ![r][p] = [has |-> FALSE, content |-> <<>>]]
          /\ op' = IF InFlight /\ op.repo = r /\ op.path = p
                    THEN [op EXCEPT !.raced = TRUE]
                    ELSE op
    /\ UNCHANGED <<repos, credVars>>

---------------------------------------------------------------------------

\* nothing hosted, nothing in flight, no generator constructed
Fresh ==
    /\ repos = [r \in AllRepoIds |-> "none"]
    /\ files = [r \in AllRepoIds |-> [p \in Paths |-> Absent]]
    /\ committed = [r \in AllRepoIds |->
                       [p \in Paths |-> [has |-> FALSE, content |-> <<>>]]]
    /\ op = NoOp
    /\ configured = NoKey
    /\ gens = [i \in Instances |-> NoGenerator]

\* the clients and generators of these runs are given their credentials by
\* the caller; the environment sets none
Init ==
    /\ Fresh
    /\ env = NoEnv

Next ==
    \/ create_repo
    \/ mcp_create_repo
    \/ list_repos
    \/ create_issue
    \/ list_issues
    \/ commit_file
    \/ read_file
    \/ user_create_repo
    \/ user_get_repos
    \/ github_get_repo
    \/ repo_create_issue
    \/ repo_get_issues
    \/ commit_get_contents
    \/ repo_update_file
    \/ repo_create_file
    \/ read_get_contents
    \/ process_file
    \/ mcp_generate_docs_with_tts
    \/ gemini_generate_content
    \/ eleven_convert
    \/ Return
    \/ ExternalWrite

Spec == Init /\ [][Next]_vars

\* generate_documentation on every response text up to MaxDocLen tokens
NextDoc ==
    \/ generate_documentation
    \/ GenerateContent(Responses)
    \/ Return

SpecDoc == Init /\ [][NextDoc]_vars

\* the environment sets any of the three credentials or none
InitCred ==
    /\ Fresh
    /\ env \in Environments

\* constructions, and calls on what was constructed
NextCred ==
    \/ GitHubClient
    \/ AIDocumentationGenerator
    \/ instance_call
    \/ instance_generate_content
    \/ eleven_convert
    \/ Return

SpecCred == InitCred /\ [][NextCred]_vars

\* the environment sets a token or none
InitMcp ==
    /\ Fresh
    /\ env \in {NoEnv, [NoEnv EXCEPT !.github = "envkey"]}

\* the dispatch handlers and the provider calls they lead to
NextMcp ==
    \/ mcp_create_repo
    \/ mcp_list_repos
    \/ mcp_create_issue
    \/ mcp_list_issues
    \/ mcp_commit_file
    \/ mcp_read_file
    \/ mcp_generate_docs_with_tts
    \/ user_create_repo
    \/ user_get_repos
    \/ github_get_repo
    \/ repo_create_issue
    \/ repo_get_issues
    \/ commit_get_contents
    \/ repo_update_file
    \/ repo_create_file
    \/ read_get_contents
    \/ gemini_generate_content
    \/ eleven_convert
    \/ Return

SpecMcp == InitMcp /\ [][NextMcp]_vars

\* the environment sets all three credentials or none
InitUi ==
    /\ Fresh
    /\ env \in {NoEnv, [github |-> "envkey", gemini |-> "envkey", eleven |-> "envkey"]}

\* the UI handlers of the documentation tab and the provider calls they lead to
NextUi ==
    \/ ui_generate_docs
    \/ ui_commit_docs
    \/ ui_commit_both
    \/ mcp_create_repo
    \/ user_create_repo
    \/ github_get_repo
    \/ commit_get_contents
    \/ repo_update_file
    \/ repo_create_file
    \/ gemini_generate_content
    \/ eleven_convert
    \/ Return

SpecUi == InitUi /\ [][NextUi]_vars

---------------------------------------------------------------------------
(* Properties of the repository client *)

RepoKinds == {"create_issue", "list_issues", "commit_file", "read_file"}

LastCall(o) == o.calls[Len(o.calls)]

HasCall(o, name) == \E i \in 1..Len(o.calls) : o.calls[i].call = name

\* a repository id that is not owner/name: empty, not exactly one '/', or an
\* empty owner or name
Malformed(s) ==
    \/ s = <<>>
    \/ CountOf(s, "/") # 1
    \/ s[1] = "/"
    \/ s[Len(s)] = "/"

\* C1: create_issue, list_issues, commit_file and read_file, given a malformed
\* repository id, fail with the ValueError of the validation and have made no
\* provider call.
C1_MalformedIdFailsBeforeAnyCall ==
    (op.kind \in RepoKinds /\ Malformed(op.repo)) =>
        /\ op.calls = <<>>
        /\ op.pc = "done"
        /\ op.out = Raised("ValueError", ValueErrorMsg)

\* a commit_file refused for an id with three non-empty segments
C1_Witness ==
    /\ op.kind = "commit_file"
    /\ op.repo = <<"o", "/", "o", "/", "o">>
    /\ op.out.kind = "ValueError"
    /\ repos[Hosted] # "none"

\* C2: every update call carries the sha the existence check just before it
\* returned; and a commit_file that returns, with no outside write to its path
\* during the call, has created (one successful create call, no update call,
\* action created) when the path did not exist at call time and has updated
\* (one successful update call, no create call, action updated) when it did.
\* The existence check's answer decides the call that follows it.
C2_CreatedOrUpdated ==
    /\ \A i \in 1..Len(op.calls) :
          op.calls[i].call = "update_file" =>
              /\ i > 1
              /\ op.calls[i - 1].call = "get_contents"
              /\ op.calls[i - 1].status = 200
              /\ op.calls[i].sha = op.calls[i - 1].sha
    /\ (op.kind = "commit_file" /\ ~op.raced /\ Len(op.calls) = 2
           /\ LastCall(op).call = "get_contents"
           /\ LastCall(op).status \in {200, NotFoundStatus}) =>
          /\ LastCall(op).status = (IF op.existed THEN 200 ELSE NotFoundStatus)
          /\ op.pc = (IF op.existed THEN "update_file" ELSE "create_file")
    /\ (op.kind = "commit_file" /\ op.pc = "done" /\ op.out.kind = "ok"
           /\ ~op.raced) =>
          IF op.existed
          THEN /\ op.out.action = "updated"
               /\ LastCall(op).call = "update_file"
               /\ LastCall(op).status = 200
               /\ ~HasCall(op, "create_file")
          ELSE /\ op.out.action = "created"
               /\ LastCall(op).call = "create_file"
               /\ LastCall(op).status = 200
               /\ ~HasCall(op, "update_file")

\* a file that existed has been updated with the fetched sha
C2_Witness ==
    /\ op.kind = "commit_file" /\ op.pc = "done" /\ op.out.kind = "ok"
    /\ op.existed /\ ~op.raced
    /\ op.out.action = "updated"
    /\ LastCall(op).sha = op.calls[2].sha
    /\ LastCall(op).sha # NoSha

\* C3: a create call is made only right after an existence check that answered
\* 404: never after another call of the operation failed.
C3_CreateOnlyAfterNotFoundCheck ==
    \A i \in 1..Len(op.calls) :
        op.calls[i].call = "create_file" =>
            /\ i > 1
            /\ op.calls[i - 1].call = "get_contents"
            /\ op.calls[i - 1].status = NotFoundStatus

\* C4: read_file on a path that does not exist (and is not written from outside
\* during the call) in a repository that resolves, once the provider has
\* answered the contents call, fails with 'File not found: <path>' and returns
\* no record.
C4_ReadMissingPath ==
    (op.kind = "read_file" /\ op.pc = "done" /\ Len(op.calls) = 2
        /\ ~op.existed /\ ~op.raced
        /\ LastCall(op).status \notin {500, 0}) =>
        /\ LastCall(op).call = "get_contents"
        /\ LastCall(op).status = NotFoundStatus
        /\ op.out = Raised("Exception", <<"File not found: ", op.path>>)
        /\ op.out.kind # "ok"

\* the path q of the existing repository is missing and was asked for
C4_Witness ==
    /\ op.kind = "read_file" /\ op.pc = "done" /\ op.path = "q"
    /\ Len(op.calls) = 2 /\ op.calls[1].status = 200
    /\ ~op.existed /\ ~op.raced
    /\ op.out.msg = <<"File not found: ", "q">>

\* C8: a read_file whose path holds what commit_file last stored, unwritten from
\* outside since, returns exactly the committed content once the provider has
\* answered with the file.
C8_RoundTrip ==
    (op.kind = "read_file" /\ op.pc = "done" /\ op.expect.has
        /\ LastCall(op).status = 200) =>
        /\ op.out.kind = "ok"
        /\ op.out.content = op.expect.content

\* a committed non-ASCII content has been read back
C8_Witness ==
    /\ op.kind = "read_file" /\ op.pc = "done" /\ op.expect.has
    /\ op.out.kind = "ok"
    /\ op.out.content = <<"U+00E9">>

\* C9 as stated: every repository creation asks for a public repository and
\* returns private = false, whatever the private parameter of create_repo.
C9_AlwaysPublic ==
    op.kind = "create_repo" =>
        /\ \A i \in 1..Len(op.calls) : ~op.calls[i].priv
        /\ (op.pc = "done" /\ op.out.kind = "ok") => ~op.out.priv

\* C9 amended: the dispatch operation mcp_create_repo always asks for a public
\* repository and returns private = false; create_repo itself passes its
\* private parameter on to the provider and returns the provider's flag.
C9_McpAlwaysPublic ==
    op.kind = "create_repo" =>
        /\ \A i \in 1..Len(op.calls) : op.calls[i].priv = op.priv
        /\ (op.pc = "done" /\ op.out.kind = "ok") =>
              op.out.priv = (repos[FullName(op.repo)] = "private")
        /\ op.via = "mcp" =>
              /\ \A i \in 1..Len(op.calls) : ~op.calls[i].priv
              /\ (op.pc = "done" /\ op.out.kind = "ok") =>
                    (~op.out.priv /\ repos[FullName(op.repo)] = "public")

\* mcp_create_repo has created the repository
C9_Witness ==
    /\ op.kind = "create_repo" /\ op.via = "mcp"
    /\ op.pc = "done" /\ op.out.kind = "ok"
    /\ Len(op.calls) = 1
    /\ repos[Hosted] = "public"

ClientKinds == RepoKinds \cup {"create_repo", "list_repos"}

\* C10: a client operation that ends on a provider call answered with a
\* GithubException (other than the 404 of read_file, which has its own message)
\* raises the normalized Exception: the operation's prefix, then the provider's
\* message when it gave one and the raw exception text otherwise.
C10_ProviderFailuresNormalized ==
    (op.kind \in ClientKinds /\ op.pc = "done" /\ Len(op.calls) > 0
        /\ LastCall(op).status \notin {200, 0}
        /\ ~(op.kind = "read_file" /\ LastCall(op).status = NotFoundStatus)) =>
        op.out = Raised("Exception",
                        <<Prefix(op.kind),
                          IF LastCall(op).data = "msg" THEN "provider message"
                                                       ELSE "str(e)">>)

---------------------------------------------------------------------------
(* Properties of the documentation generator *)

\* the text without the blanks and line breaks at its two ends
Trimmed(s) ==
    LET keep == {i \in 1..Len(s) : s[i] \notin White}
    IN  IF keep = {} THEN <<>>
        ELSE LET lo == CHOOSE i \in keep : \A j \in keep : i <= j
                 hi == CHOOSE i \in keep : \A j \in keep : j <= i
             IN  [i \in 1..(hi - lo + 1) |->
                     IF i = hi - lo + 1 /\ s[hi] = "## " THEN "##" ELSE s[lo + i - 1]]

\* where the pieces of s between the separators in seps start
PieceStarts(s, seps) == {1} \cup {i + 1 : i \in {k \in 1..Len(s) : s[k] \in seps}}

\* the piece of s that starts at a: up to the next separator or the end of s
PieceAt(s, seps, a) ==
    LET ends == {k \in a..Len(s) : s[k] \in seps}
    IN  IF ends = {} THEN SubSeq(s, a, Len(s))
        ELSE SubSeq(s, a, (CHOOSE k \in ends : \A j \in ends : k <= j) - 1)

\* the starts of the pieces that are not blank
NonBlankStarts(s, seps) ==
    {a \in PieceStarts(s, seps) : Trimmed(PieceAt(s, seps, a)) # <<>>}

\* the first two non-blank pieces of s, trimmed, with glue between them
FirstTwoJoined(s, seps, glue) ==
    LET nb == NonBlankStarts(s, seps)
    IN  IF nb = {} THEN <<>>
        ELSE LET a == CHOOSE i \in nb : \A j \in nb : i <= j
                 rest == nb \ {a}
             IN  IF rest = {} THEN Trimmed(PieceAt(s, seps, a))
                 ELSE LET b == CHOOSE i \in rest : \A j \in rest : i <= j
                      IN  Norm(Trimmed(PieceAt(s, seps, a)) \o glue
                                   \o Trimmed(PieceAt(s, seps, b)))

HasMarker(s) == Occurrences(s, SummaryMarker) # {} \/ Occurrences(s, DocMarker) # {}

\* generate_documentation has returned, its response holding the summary
\* marker exactly once
OneMarkerDone ==
    /\ op.kind = "generate_documentation" /\ op.pc = "done" /\ op.out.kind = "ok"
    /\ Cardinality(Occurrences(op.response, SummaryMarker)) = 1

LeftOf(full) ==
    SubSeq(full, 1, (CHOOSE i \in Occurrences(full, SummaryMarker) : TRUE) - 1)

RightOf(full) ==
    SubSeq(full, (CHOOSE i \in Occurrences(full, SummaryMarker) : TRUE) + 2, Len(full))

\* C5 as the specification words it: with exactly one '## Summary' in the
\* response, documentation is the text left of it without '## Documentation',
\* trimmed, and so holds neither marker; summary is the first two non-empty
\* trimmed lines of the text right of it, joined by one space, without a line
\* break.
C5_DocumentationHoldsNoMarker ==
    OneMarkerDone =>
        /\ op.out.documentation = Trimmed(Remove(LeftOf(op.response), DocMarker))
        /\ ~HasMarker(op.out.documentation)
        /\ op.out.summary = FirstTwoJoined(RightOf(op.response), {"\n"}, <<" ">>)
        /\ "\n" \notin Range(op.out.summary)

\* C5: with exactly one '## Summary' in the response, documentation is the text
\* left of it with the occurrences of '## Documentation' found in one pass
\* from the left removed, then trimmed; it holds neither marker when the left
\* text has no '#' outside those occurrences (every "## " of it begins one).
\* summary is the first
\* two non-empty trimmed lines of the text right of it, joined by one space,
\* without a line break.
C5_SingleSummaryMarker ==
    OneMarkerDone =>
        LET left == LeftOf(op.response)
        IN  /\ op.out.documentation = Trimmed(Remove(left, DocMarker))
            /\ (\A k \in 1..Len(left) : left[k] = "## " => OccursAt(left, DocMarker, k))
                   => ~HasMarker(op.out.documentation)
            /\ op.out.summary = FirstTwoJoined(RightOf(op.response), {"\n"}, <<" ">>)
            /\ "\n" \notin Range(op.out.summary)

\* a response with '## Documentation' left of the one summary marker and three
\* lines right of it: the marker is gone and two lines are kept
C5_Witness ==
    /\ OneMarkerDone
    /\ Occurrences(LeftOf(op.response), DocMarker) # {}
    /\ Cardinality(NonBlankStarts(RightOf(op.response), {"\n"})) = 3
    /\ ~HasMarker(op.out.documentation)
    /\ op.out.summary = <<"Summary", " ", "Summary">>

\* C6: when the response holds '## Summary' not at all or more than once,
\* documentation is the whole response, and summary is the first two non-blank
\* fragments between the runs of '.', '!' and '?', each trimmed, joined by
\* '. ' and ended by exactly one '.'.
C6_FallbackSummary ==
    (/\ op.kind = "generate_documentation" /\ op.pc = "done" /\ op.out.kind = "ok"
     /\ Cardinality(Occurrences(op.response, SummaryMarker)) # 1) =>
        LET summary == op.out.summary
        IN  /\ op.out.documentation = op.response
            /\ summary = FirstTwoJoined(op.response, Delimiters, <<".", " ">>) \o <<".">>
            /\ summary[Len(summary)] = "."
            /\ Len(summary) > 1 => summary[Len(summary) - 1] # "."

\* a response of three sentences without the marker, and one holding the
\* marker twice
C6_Witness ==
    /\ op.kind = "generate_documentation" /\ op.pc = "done" /\ op.out.kind = "ok"
    /\ Occurrences(op.response, SummaryMarker) = {}
    /\ Cardinality(NonBlankStarts(op.response, Delimiters)) = 3
    /\ "!" \in Range(op.response)
    /\ op.out.summary = <<"Summary", ".", " ", "Summary", ".">>

C6_WitnessTwoMarkers ==
    /\ op.kind = "generate_documentation" /\ op.pc = "done" /\ op.out.kind = "ok"
    /\ Cardinality(Occurrences(op.response, SummaryMarker)) = 2
    /\ op.out.documentation = op.response

PipelineKinds == {"process_file", "mcp_generate_docs_with_tts"}

\* the generation of the invocation failed: no model configured, or the
\* provider's call raised
GenerationFailed(o) ==
    \/ ~o.gemini
    \/ HasCall(o, "generate_content") /\ o.calls[1].status # 200

\* C7: process_file and mcp_generate_docs_with_tts call the speech provider
\* only after a generation that succeeded; when the generation fails the
\* invocation ends with that failure (raised by process_file, returned as an
\* error record by the handler) and without audio.
C7_NoSpeechAfterFailedGeneration ==
    op.kind \in PipelineKinds =>
        /\ (HasCall(op, "convert") \/ op.pc = "convert") =>
               /\ Len(op.calls) >= 1
               /\ op.calls[1].call = "generate_content" /\ op.calls[1].status = 200
        /\ (op.pc = "done" /\ GenerationFailed(op)) =>
               /\ ~HasCall(op, "convert")
               /\ ~op.out.audio
               /\ op.out.kind = (IF op.kind = "process_file"
                                 THEN (IF op.gemini THEN "Exception" ELSE "ValueError")
                                 ELSE "error_record")
               /\ op.out.msg = (IF op.gemini
                                THEN <<"Failed to generate documentation: ", "str(e)">>
                                ELSE GeminiKeyMsg)

\* the provider's generation call has failed in an invocation that has a speech
\* client, and the invocation is over
C7_Witness ==
    /\ op.kind \in PipelineKinds /\ op.pc = "done"
    /\ op.gemini /\ op.eleven
    /\ Len(op.calls) = 1 /\ op.calls[1].call = "generate_content"
    /\ op.calls[1].status # 200
    /\ ~op.out.audio

---------------------------------------------------------------------------
(* Properties of the credentials *)

\* the generator the invocation in flight runs on
Self == gens[op.inst]

\* the key the resolution order gives: the caller's unless it is none or blank
Expected(caller, environment) == IF Truthy(caller) THEN caller ELSE environment

\* the client was constructed, or the construction failed before any call
ClientResolved ==
    (op.kind = "GitHubClient" /\ op.pc = "done") =>
        /\ op.calls = <<>>
        /\ op.token = Expected(op.arg, env.github)
        /\ IF Truthy(op.arg) \/ Truthy(env.github)
           THEN op.out.kind = "ok"
           ELSE op.out = Raised("ValueError", TokenMsg)

\* C11: with no text key (none passed, none in the environment) the generator
\* is constructed all the same and generate_documentation fails with the
\* ValueError naming the variable, without a provider call; the same for
\* text_to_speech with no speech key; a capability whose key is there is not
\* refused; GitHubClient with no token fails with its ValueError before any
\* provider call.
C11_AbsentCredentialFailsFast ==
    /\ ClientResolved
    /\ (op.inst \in Instances /\ op.kind = "generate_documentation") =>
           /\ Self.made
           /\ IF Truthy(Self.args.gemini) \/ Truthy(env.gemini)
              THEN op.out.kind # "ValueError"
              ELSE /\ op.pc = "done" /\ op.calls = <<>>
                   /\ op.out = Raised("ValueError", GeminiKeyMsg)
    /\ (op.inst \in Instances /\ op.kind = "text_to_speech") =>
           /\ Self.made
           /\ IF Truthy(env.eleven)
              THEN op.out.kind # "ValueError"
              ELSE /\ op.pc = "done" /\ op.calls = <<>>
                   /\ op.out = Raised("ValueError", ElevenKeyMsg)

\* generate_documentation has failed fast on a generator without a text key
\* whose speech client is there
C11_Witness ==
    /\ op.inst \in Instances /\ op.kind = "generate_documentation"
    /\ op.pc = "done" /\ op.calls = <<>>
    /\ op.out = Raised("ValueError", GeminiKeyMsg)
    /\ Self.made /\ ~Self.gemini_model /\ Self.elevenlabs_client

\* text_to_speech has produced audio on a generator without a text key
C11_WitnessUsable ==
    /\ op.inst \in Instances /\ op.kind = "text_to_speech"
    /\ op.pc = "done" /\ op.out.audio
    /\ ~Self.gemini_model

\* C13: the token of the client and the text key of the generator are the
\* caller's value whenever the caller passes one (blank counts as none), and
\* the environment's only otherwise, also when the environment sets one; the
\* request of the only generator constructed is sent with that key.
C13_CallerCredentialFirst ==
    /\ ClientResolved
    /\ \A i \in Instances :
           gens[i].made =>
               /\ gens[i].gemini_key = Expected(gens[i].args.gemini, env.gemini)
               /\ gens[i].gemini_model = Truthy(gens[i].gemini_key)
    /\ (/\ op.inst \in Instances /\ HasCall(op, "generate_content")
        /\ Cardinality({i \in Instances : gens[i].made}) = 1) =>
           op.sent = Expected(Self.args.gemini, env.gemini)

\* the environment sets a text key, the caller passed another, and the request
\* of the generator went out with the caller's
C13_Witness ==
    /\ op.inst \in Instances /\ HasCall(op, "generate_content")
    /\ Cardinality({i \in Instances : gens[i].made}) = 1
    /\ env.gemini = "envkey" /\ Self.args.gemini = "k1"
    /\ op.sent = "k1"

\* the caller's token and text key are used when given
TokenAndTextKeyOverride ==
    /\ (op.kind = "GitHubClient" /\ op.pc = "done" /\ Truthy(op.arg)) =>
           op.token = op.arg /\ op.out.kind = "ok"
    /\ \A i \in Instances :
           (gens[i].made /\ Truthy(gens[i].args.gemini)) =>
               gens[i].gemini_key = gens[i].args.gemini

\* C14 as the specification words it: each of the three credentials is the
\* caller's value when the caller gives one.
C14_EachCredentialOverridable ==
    /\ TokenAndTextKeyOverride
    /\ \A i \in Instances :
           (gens[i].made /\ Truthy(gens[i].args.eleven)) =>
               gens[i].elevenlabs_key = gens[i].args.eleven

\* C14: the token and the text key are the caller's value when the caller
\* gives one; the speech key is the environment's whatever the caller would
\* give.
C14_TokenAndTextKeyOverridable ==
    /\ TokenAndTextKeyOverride
    /\ \A i \in Instances :
           gens[i].made => gens[i].elevenlabs_key = env.eleven

\* a generator constructed by a caller with a text key and a speech key of its
\* own, under an environment that sets both
C14_Witness ==
    \E i \in Instances :
        /\ gens[i].made
        /\ env.gemini = "envkey" /\ env.eleven = "envkey"
        /\ gens[i].args.gemini = "k2" /\ gens[i].args.eleven = "k1"
        /\ gens[i].gemini_key = "k2"
        /\ gens[i].elevenlabs_key = "envkey"

\* C19: the request a generator's generate_documentation makes is sent with
\* the text key resolved when that generator was constructed, whatever other
\* generators were constructed since.
C19_RequestCarriesOwnCredential ==
    (op.inst \in Instances /\ HasCall(op, "generate_content")) =>
        op.sent = op.key

---------------------------------------------------------------------------
(* Properties of the dispatch handlers *)

\* the invocation came through a dispatch handler
Dispatched == op.via = "mcp" \/ op.kind = "mcp_generate_docs_with_tts"

\* C12: whatever fails in a dispatch handler (no credential, a malformed
\* repository id, a missing file, a provider failure), the handler returns:
\* its outcome is a result or an {error: message} record, never an exception.
C12_HandlersReturnErrorRecord ==
    (Dispatched /\ op.pc = "done") => op.out.kind \in {"ok", "error_record"}

---------------------------------------------------------------------------
(* Properties of commit_file and read_file under failures and races *)

\* the update call of the invocation, when it has made one
UpdateCall(o) ==
    o.calls[CHOOSE i \in 1..Len(o.calls) : o.calls[i].call = "update_file"]

\* C15: when the file changed after the existence check, so that the update
\* call carried a stale sha and the provider rejected it, commit_file ends
\* there: the update is its last call (no second read, no retry, no create),
\* it raises the normalized 'Failed to commit file: ...' Exception and reports
\* no action.
C15_StaleShaSurfaced ==
    (/\ op.kind = "commit_file" /\ op.stale
     /\ UpdateCall(op).status \notin {200, 0}
     /\ UpdateCall(op).data # "none") =>
        /\ op.pc = "done"
        /\ LastCall(op).call = "update_file"
        /\ Cardinality({i \in 1..Len(op.calls) :
                            op.calls[i].call \in {"get_contents", "update_file"}}) = 2
        /\ op.out = Raised("Exception",
                           <<Prefix("commit_file"), Detail(UpdateCall(op))>>)
        /\ op.out.action = ""

\* C16: when the existence check of commit_file fails with anything but 404,
\* the check is the last call of the operation (no create, no update), and the
\* operation ends with a failure, reporting no action.
C16_CheckFailurePropagates ==
    (/\ op.kind = "commit_file" /\ Len(op.calls) >= 2
     /\ op.calls[2].call = "get_contents"
     /\ op.calls[2].status \notin {200, NotFoundStatus}) =>
        /\ op.pc = "done"
        /\ Len(op.calls) = 2
        /\ op.out.kind \in {"Exception", "AttributeError", "TransportError"}
        /\ op.out.action = ""
        /\ op.calls[2].data = "msg" =>
               op.out = Raised("Exception",
                               <<Prefix("commit_file"), "provider message">>)

\* the existence check of a file that exists has failed with a 500
C16_Witness ==
    /\ op.kind = "commit_file" /\ op.pc = "done" /\ op.existed
    /\ Len(op.calls) = 2
    /\ op.calls[2].call = "get_contents" /\ op.calls[2].status = 500
    /\ op.out.kind = "Exception"

\* C17: read_file raises 'File not found: <path>' only when the provider
\* answered 404 for the path; a repository that does not resolve, like every
\* other provider failure, gives the generic 'Failed to read file: ...' with
\* the provider's message.
C17_NotFoundOnlyForPath ==
    (op.kind = "read_file" /\ op.pc = "done" /\ Len(op.calls) > 0) =>
        /\ op.out = Raised("Exception", <<"File not found: ", op.path>>) =>
               /\ LastCall(op).call = "get_contents"
               /\ LastCall(op).status = NotFoundStatus
        /\ (/\ LastCall(op).status \notin {200, 0}
            /\ LastCall(op).data # "none"
            /\ LastCall(op).call = "get_repo") =>
               op.out = Raised("Exception",
                               <<Prefix("read_file"), Detail(LastCall(op))>>)

\* C18: process_file on a generator that has a text key and no speech key
\* fails with the ValueError of the speech key and has not called the
\* generative-text provider.
C18_SpeechKeyCheckedFirst ==
    (op.kind = "process_file" /\ op.gemini /\ ~op.eleven) =>
        /\ ~HasCall(op, "generate_content")
        /\ op.pc = "done" => op.out = Raised("ValueError", ElevenKeyMsg)

---------------------------------------------------------------------------
(* Properties of the UI handlers *)

\* the two provider calls of ui_generate_docs were made and both succeeded
Generated(o) ==
    /\ Len(o.calls) = 2
    /\ o.calls[1].call = "generate_content" /\ o.calls[1].status = 200
    /\ o.calls[2].call = "convert" /\ o.calls[2].status = 200

\* C20: a ui_generate_docs that fails returns a documentation that starts
\* with the cross mark; ui_commit_docs and ui_commit_both, given a
\* documentation that is empty or starts with the cross mark, never start the
\* commit of the documentation (ui_commit_docs makes no provider call at all),
\* and the content of every documentation commit is non-empty and does not
\* start with the mark.
C20_ErrorTextNeverCommitted ==
    /\ (op.ui = "ui_generate_docs" /\ op.pc = "done") =>
           IF Generated(op)
           THEN op.out.kind = "ok" /\ op.out.documentation = op.result.documentation
           ELSE /\ op.out.documentation # <<>>
                /\ Head(op.out.documentation) = ErrorMark
                /\ ~op.out.audio
    /\ (/\ op.ui \in {"ui_commit_docs", "ui_commit_both"}
        /\ (op.documentation = <<>> \/ Head(op.documentation) = ErrorMark)) =>
           /\ op.stage # "docs"
           /\ op.ui = "ui_commit_docs" => op.calls = <<>> /\ op.pc = "done"
           /\ op.pc = "done" => op.out.kind = "text"
    /\ (op.ui \in {"ui_commit_docs", "ui_commit_both"} /\ op.stage = "docs") =>
           /\ op.content = op.documentation /\ op.content # <<>>
           /\ Head(op.content) # ErrorMark

\* ui_commit_both, given an error text as documentation, has committed the
\* code file and skipped the documentation
C20_Witness ==
    /\ op.ui = "ui_commit_both" /\ op.pc = "done"
    /\ op.documentation = UiError(<<"str(e)">>)
    /\ HasCall(op, "create_file") /\ LastCall(op).status = 200
    /\ op.out.msg = <<"Code file committed", "No documentation generated, skipping">>

\* ui_generate_docs has failed in the speech call and returned the error text
C20_WitnessGenerate ==
    /\ op.ui = "ui_generate_docs" /\ op.pc = "done"
    /\ Len(op.calls) = 2 /\ LastCall(op).status # 200
    /\ op.out.documentation = UiError(<<"Failed to generate audio: ", "str(e)">>)

\* the code-file commit of ui_commit_both returned its record: the success
\* line is among the results the handler has collected
CodeCommitted(o) == "Code file committed" \in Range(o.results)

\* ui_commit_both has returned, it was given a readable file and a
\* documentation that is to be committed
BothRequested(o) ==
    /\ o.ui = "ui_commit_both" /\ o.pc = "done"
    /\ o.file = "ok" /\ ~NoDocumentation(o.documentation)

\* the returned text keeps the success line of the code-file commit
C21_SuccessLineKept ==
    (op.ui = "ui_commit_both" /\ op.pc = "done" /\ CodeCommitted(op)) =>
        "Code file committed" \in Range(op.out.msg)

\* the documentation commit was started whatever the code-file commit did
C21_DocsCommitAttempted ==
    BothRequested(op) => op.stage = "docs"

\* C21: when ui_commit_both has returned, the text it returns contains the
\* success line of the code-file commit whenever that commit succeeded, also
\* when the documentation commit failed afterwards; and, given a readable file
\* and a documentation to commit, the documentation commit was attempted
\* whether or not the code-file commit failed.
C21_BothOutcomesReported ==
    /\ C21_SuccessLineKept
    /\ C21_DocsCommitAttempted

====
